---------------------------- MODULE Spec2Model ----------------------------
(***************************************************************************)
(* Model of the sky-capture pipeline of the backend:                       *)
(*   src/backend/src/tools/capture_sky/tool.py          (SkyCaptureTool)   *)
(*   src/backend/src/tools/capture_sky/simbad_query.py  (catalog batch)    *)
(*   src/backend/src/tools/capture_sky/object_detector/contrast_detector.py*)
(*   src/backend/src/config.py                                             *)
(*                                                                         *)
(* Specifications:                                                         *)
(*   Spec          - runs of capture_sky, stage by stage, with the on-disk *)
(*                   plate-solution cache persisting from run to run;      *)
(*   SpecBatch     - one call of query_simbad_batch on a caller-supplied   *)
(*                   position list, with enough positions to fill the pool;*)
(*   SpecLive      - Spec under fair scheduling;                           *)
(*   SpecBatchLive - a batch call under fair scheduling against a catalog  *)
(*                   service that may never answer some queries;           *)
(*   SpecClosest   - the scan of one result table for the closest row;     *)
(*   SpecParse     - one result row through _parse_simbad_row;             *)
(*   SpecDetect    - ContrastDetector.detect from the merge pass on.       *)
(***************************************************************************)
EXTENDS Integers, Sequences, FiniteSets, TLC

(* ------------------------------ bounds --------------------------------- *)
\* longest position list handed to query_simbad_batch in SpecBatch
MaxPos == 7
\* longest position list in SpecBatchLive, where the service may stay silent
MaxSilentPos == 3
\* most rows in the table the catalog service returns in SpecClosest
MaxRows == 3
\* angular separations of rows range over 0..MaxSep
MaxSep == 1
\* most components that reach the merge pass in SpecDetect
MaxComp == 3
\* components sit on the even pixel columns 0, 2, .., 2 * MaxCol of one row
MaxCol == 3
\* most components the detector reports for one image
MaxDet == 3
\* brightness values range over 1..MaxBright
MaxBright == 2
\* runs of capture_sky in one behaviour of Spec
MaxRuns == 2
\* largest configured max_query_objects
MaxCap == 2

(* -------------------------- program constants -------------------------- *)
\* simbad_query.py:297  actual_workers = min(max_workers, 6)
WorkerCap == 6
\* tool.py:210  max_workers=10 passed by _identify_objects
PipelineMaxWorkers == 10
\* contrast_detector.py:41  merge_distance_px: float = 5.0
MergeDistancePx == 5
\* contrast_detector.py:38  min_area_px: int = 4
MinAreaPx == 4
\* contrast_detector.py:147, 224  np.pi, as the fraction PiNum / PiDen
PiNum == 355
PiDen == 113
\* contrast_detector.py:147, 224  radius_px is kept in 1/RadiusScale pixel
RadiusScale == 10

\* Python's None, where a name, an image or an answer is absent
None == "None"

Images == {"imgA", "imgB"}

\* max_workers values a caller passes to query_simbad_batch
MaxWorkersChoices == {0, 2, PipelineMaxWorkers}

VARIABLES
    (* configuration, fixed at start-up (config.py) *)
    use_cache,            \* config.plate_solving_use_cache
    max_query_objects,    \* config.max_query_objects
    (* the file system *)
    cache,                \* content of <storage_dir>/logs/wcs.pkl
    (* capture_sky *)
    runs,                 \* runs of capture_sky started so far
    stage,                \* stage of the current run
    step,                 \* position inside the stage
    image,                \* the decoded image of the current run
    wcs,                  \* wcs_header of the current run
    wcsSource,            \* where wcs_header came from: "cache" or "solver"
    solverCalls,          \* requests.post calls made by the current run
    response,             \* the solver's answer to the current run (None: none yet)
    exc,                  \* the last exception raised inside the current run
    detected_objects,     \* capture_sky's list object (aliased by the callee)
    retained,             \* _identify_objects' local detected_objects
    celestial_positions,  \* positions built by the mapping loop
    celestial_objects,    \* what _identify_objects returned
    identified_objects,   \* the run's output list
    (* query_simbad_batch *)
    bpc,                  \* position inside query_simbad_batch
    positions,            \* its argument
    max_workers,          \* its argument
    fut,                  \* per submitted task: "queued", "running", or its outcome
    results,              \* the results list
    errlog,               \* indexes for which logger.error was called
    (* the catalog service *)
    silent,               \* tasks whose query the service never answers
    (* _query_simbad_at_position, the scan for the closest row *)
    result,               \* the table the service returned, row by row
    has_radec,            \* 'ra' in result.colnames and 'dec' in result.colnames
    row_i,                \* the row the for loop is at
    min_distance,         \* smallest separation seen so far
    closest_row,          \* index of the row kept so far (0: None)
    qpc,                  \* position inside the scan
    (* _parse_simbad_row *)
    row,                  \* the row handed to the parser
    parsed,               \* the CelestialObject it returns
    obj_dict,             \* the identified-object entry capture_sky builds from it
    (* ContrastDetector.detect, from the merge pass on *)
    raw_objects,          \* detected_objects before the merge pass
    merged_objects,       \* what _merge_nearby_objects returned
    detect_return,        \* what detect returns
    dpc,                  \* position inside detect
    (* SkyCaptureTool, the object *)
    plate_solving_method, \* the plate_solving_method the caller's config carries
    plate_solver,         \* the tool's plate_solver attribute (None: no such attribute)
    instantiated,         \* the solver classes instantiated so far
    delegated,            \* calls made to a solver object's solve
    tpc,                  \* "new" before __init__ has run, "ready" after
    (* the astrometry server *)
    img_file,             \* /tmp/astrometry/upload.jpg: the image it holds
    wcs_file,             \* /tmp/astrometry/upload.wcs: the image it was solved from
    req,                  \* per /solve request: position, uploaded image, answer
    (* analyze_image_stream, the generator behind /analyze *)
    spc,                  \* where the generator is suspended
    events,               \* the events yielded so far, in order
    analysis_objects,     \* len(identified_objects) of the analysis result
    main_structure        \* how the Gemini step went (None: not reached)

cfgVars   == <<use_cache, max_query_objects>>
envVars   == <<silent>>
closestVars == <<result, has_radec, row_i, min_distance, closest_row, qpc>>
parseVars == <<row, parsed, obj_dict>>
detVars   == <<raw_objects, merged_objects, detect_return, dpc>>
toolVars  == <<plate_solving_method, plate_solver, instantiated, delegated, tpc>>
serverVars == <<img_file, wcs_file, req>>
streamVars == <<spc, events, analysis_objects, main_structure>>
auxVars   == <<toolVars, serverVars, streamVars>>
fnVars    == <<closestVars, parseVars, detVars, auxVars>>
runVars   == <<runs, stage, step, image, wcs, wcsSource, solverCalls, response, exc,
               detected_objects,
               retained, celestial_positions, celestial_objects, identified_objects>>
batchVars == <<bpc, positions, max_workers, fut, results, errlog>>
vars      == <<cfgVars, envVars, fnVars, cache, runVars, batchVars>>

(* ------------------------------ helpers -------------------------------- *)
Min(a, b) == IF a < b THEN a ELSE b

\* a sky position: the plate solution that produced it and the pixel it maps
Sky(sol, px) == [sol |-> sol, px |-> px]

\* CelestialObject built by _parse_simbad_row for the closest row at p
Obj(p) == [at |-> p]

\* None in a slot of Optional[CelestialObject]
NoObject == [at |-> [sol |-> None, px |-> 0]]

\* a submitted task that has not ended
Task(st) == [kind |-> st, value |-> NoObject, failed |-> FALSE]

(* --------------------------- plate solutions --------------------------- *)
\* a WCS header: the image it was solved from, and whether it carries the
\* CRVAL1/CRVAL2 cards capture_sky requires (tool.py:369)
Solution(img, crval) == [img |-> img, crval |-> crval]

\* states of the cache file besides holding a pickled header
NoFile  == [img |-> None, crval |-> FALSE]
Corrupt == [img |-> "corrupt", crval |-> FALSE]

IsSolution(c) == c.img \in Images

(* ------------------------------ detector ------------------------------- *)
\* DetectedObject: its centroid pixel and its brightness (types.py:13-28)
Detection(px, b) == [px |-> px, brightness |-> b]

\* the lists _merge_nearby_objects can hand to the final sort of detect:
\* up to MaxDet objects at distinct pixels, in any brightness order
MergedLists ==
    UNION { { [i \in 1..n |-> Detection(i, b[i])] : b \in [1..n -> 1..MaxBright] }
            : n \in 0..MaxDet }

\* list.sort(key=brightness, reverse=True): stable, brightest first
InsertDesc(sorted, d) ==
    LET k == Cardinality({i \in 1..Len(sorted) : sorted[i].brightness >= d.brightness})
    IN  SubSeq(sorted, 1, k) \o <<d>> \o SubSeq(sorted, k + 1, Len(sorted))

\* variant: the sort without reverse=True, faintest first
InsertAsc(sorted, d) ==
    LET k == Cardinality({i \in 1..Len(sorted) : sorted[i].brightness <= d.brightness})
    IN  SubSeq(sorted, 1, k) \o <<d>> \o SubSeq(sorted, k + 1, Len(sorted))

RECURSIVE SortAscending(_)
SortAscending(s) ==
    IF s = << >> THEN << >>
    ELSE InsertAsc(SortAscending(SubSeq(s, 1, Len(s) - 1)), s[Len(s)])

\* contrast_detector.py:168 and tool.py:183
RECURSIVE SortByBrightness(_)
SortByBrightness(s) ==
    IF s = << >> THEN << >>
    ELSE InsertDesc(SortByBrightness(SubSeq(s, 1, Len(s) - 1)), s[Len(s)])

\* variant: the merged list is returned as the merge pass left it
DetectUnsorted(merged) == merged
\* contrast_detector.py:164-170: the merged list, sorted brightest first
Detect(merged) == SortByBrightness(merged)

\* variant: the slice keeps the end of the list
TruncateTail(list, n) == SubSeq(list, Len(list) - Min(n, Len(list)) + 1, Len(list))
\* tool.py:184  detected_objects[:max_query_objects]
Truncate(list, n) == SubSeq(list, 1, Min(n, Len(list)))

(* ------------------------- query_simbad_batch -------------------------- *)
\* the catalog service: the sky of the model has an object at every position
\* but those of every third pixel, where the cone search returns no row
\* (simbad_query.py:88-89) and the query answers None
Catalog(p) == IF p.px % 3 = 0 THEN NoObject ELSE Obj(p)

\* what one task (_worker_query_task on position p) can end with:
\*   returned Catalog(p)  the service answered (simbad_query.py:83-125)
\*   returned None        the query failed and _query_simbad_at_position
\*                        swallowed the failure (127-129)
\*   raised               an exception left the worker task; future.result()
\*                        re-raises it in the parent (318)
TaskOutcomes(p) ==
    { [kind |-> "returned", value |-> Catalog(p), failed |-> FALSE],
      [kind |-> "returned", value |-> NoObject,   failed |-> TRUE],
      [kind |-> "raised",   value |-> NoObject,   failed |-> TRUE] }

Running == {i \in DOMAIN fut : fut[i].kind = "running"}
Queued  == {i \in DOMAIN fut : fut[i].kind = "queued"}
Ended   == {i \in DOMAIN fut : fut[i].kind \in {"returned", "raised"}}

\* variant: the caller's value is used as it is
ActualWorkersUncapped(mw) == mw
\* simbad_query.py:297
ActualWorkers(mw) == Min(mw, WorkerCap)

\* variant: results are stored in the order the futures complete
WriteSlotByCompletion(idx, nEnded) == nEnded + 1
\* simbad_query.py:318-319  idx, result = future.result(); results[idx] = result
WriteSlot(idx, nEnded) == idx

\* variant: an empty list is handed to the pool like any other
EmptyBatchUnchecked(ps) == FALSE
\* simbad_query.py:290  if not positions
EmptyBatch(ps) == ps = << >>

\* simbad_query.py:290-304: empty input returns [] at once; otherwise the
\* results list is allocated, the pool is created (ProcessPoolExecutor
\* rejects max_workers <= 0 with ValueError) and every position is submitted.
BatchStart ==
    /\ bpc = "called"
    /\ IF EmptyBatch(positions)
         THEN /\ bpc' = "returned"
              /\ results' = << >>
              /\ fut' = << >>
         ELSE IF ActualWorkers(max_workers) <= 0
         THEN /\ bpc' = "raised"
              /\ results' = [i \in 1..Len(positions) |-> NoObject]
              /\ fut' = << >>
         ELSE /\ bpc' = "pool"
              /\ results' = [i \in 1..Len(positions) |-> NoObject]
              /\ fut' = [i \in 1..Len(positions) |-> Task("queued")]
    /\ UNCHANGED <<positions, max_workers, errlog>>
    /\ UNCHANGED <<cfgVars, envVars, fnVars, cache, runVars>>

\* a pool process takes the oldest submitted task (the executor's queue is FIFO)
\* when fewer than actual_workers tasks are executing
Dispatch ==
    /\ bpc = "pool"
    /\ Queued # {}
    /\ Cardinality(Running) < ActualWorkers(max_workers)
    /\ LET i == CHOOSE j \in Queued : \A k \in Queued : j <= k
       IN  fut' = [fut EXCEPT ![i] = Task("running")]
    /\ UNCHANGED <<bpc, positions, max_workers, results, errlog>>
    /\ UNCHANGED <<cfgVars, envVars, fnVars, cache, runVars>>

\* variant: an exception of future.result() leaves the loop and the call
BatchPcAfterUncaught(o) == IF o.kind = "raised" THEN "raised" ELSE "pool"
\* simbad_query.py:317-322: the try/except sits inside the loop, so the loop
\* goes on whatever the future holds
BatchPcAfter(o) == "pool"

\* a running task ends and as_completed hands its future to the loop body
\* (simbad_query.py:316-322), the only writer of results: a returned
\* (idx, result) is stored at idx, an exception is logged and the slot kept.
\* A task ends when the service has answered its query or the query has
\* failed; nothing else ends it: no timeout is passed to Simbad (63-86), to
\* future.result() (318) or to as_completed (316).
Complete(i) ==
    /\ bpc = "pool"
    /\ i \in Running
    /\ i \notin silent
    /\ \E o \in TaskOutcomes(positions[i]) :
         /\ fut' = [fut EXCEPT ![i] = o]
         /\ IF o.kind = "returned"
              THEN /\ results' = [results EXCEPT
                                    ![WriteSlot(i, Cardinality(Ended))] = o.value]
                   /\ errlog' = errlog
              ELSE /\ results' = results
                   /\ errlog' = errlog \cup {i}
         /\ bpc' = BatchPcAfter(o)
    /\ UNCHANGED <<positions, max_workers>>
    /\ UNCHANGED <<cfgVars, envVars, fnVars, cache, runVars>>

\* every future was consumed: the with-block exits and results is returned (324)
BatchReturn ==
    /\ bpc = "pool"
    /\ Ended = DOMAIN fut
    /\ bpc' = "returned"
    /\ UNCHANGED <<positions, max_workers, fut, results, errlog>>
    /\ UNCHANGED <<cfgVars, envVars, fnVars, cache, runVars>>

(* -------- _query_simbad_at_position: the scan for the closest row ------ *)
\* simbad_query.py:93  min_distance = float('inf'): above every separation
Inf == MaxSep + 1

\* simbad_query.py:98-109: what the scan finds in a row's ra and dec: masked
\* values, a pair float() accepts, a sexagesimal pair SkyCoord accepts, or
\* text neither accepts. sep is the separation from the queried position of
\* a row whose coordinates could be read (112-113).
Rows ==
    {[coord |-> k, sep |-> 0] : k \in {"masked", "unparseable"}}
      \cup {[coord |-> k, sep |-> d] : k \in {"float", "sexagesimal"}, d \in 0..MaxSep}

\* simbad_query.py:100-109: the row reaches the distance computation
Usable(r) == r.coord \in {"float", "sexagesimal"}

\* variant: a row as close as the kept one replaces it
CloserOrEqual(sep, min) == sep <= min
\* simbad_query.py:115  if sep < min_distance
Closer(sep, min) == sep < min

\* the variables of the pipeline and of the batch call, at rest
PipelineIdle ==
    /\ use_cache = FALSE
    /\ max_query_objects = MaxCap
    /\ cache = NoFile
    /\ runs = 0
    /\ stage = "Idle"
    /\ step = "-"
    /\ image = None
    /\ wcs = NoFile
    /\ wcsSource = None
    /\ solverCalls = 0
    /\ response = None
    /\ exc = None
    /\ detected_objects = << >>
    /\ retained = << >>
    /\ celestial_positions = << >>
    /\ celestial_objects = << >>
    /\ identified_objects = << >>
    /\ bpc = "idle"
    /\ positions = << >>
    /\ max_workers = PipelineMaxWorkers
    /\ fut = << >>
    /\ results = << >>
    /\ errlog = {}
    /\ silent = {}

ClosestIdle ==
    /\ result = << >>
    /\ has_radec = TRUE
    /\ row_i = 1
    /\ min_distance = Inf
    /\ closest_row = 0
    /\ qpc = "idle"

\* simbad_query.py:95-120: one pass of the for loop over the result rows
ScanRow ==
    /\ qpc = "scan"
    /\ row_i <= Len(result)
    /\ LET r == result[row_i] IN
       IF has_radec /\ Usable(r) /\ Closer(r.sep, min_distance)
         THEN /\ min_distance' = r.sep
              /\ closest_row' = row_i
         ELSE UNCHANGED <<min_distance, closest_row>>
    /\ row_i' = row_i + 1
    /\ UNCHANGED <<result, has_radec, qpc>>
    /\ UNCHANGED <<cfgVars, envVars, auxVars, parseVars, detVars, cache, runVars, batchVars>>

\* simbad_query.py:122-126: after the loop, None when no row was kept,
\* otherwise the kept row goes to _parse_simbad_row
ScanEnd ==
    /\ qpc = "scan"
    /\ row_i > Len(result)
    /\ qpc' = IF closest_row = 0 THEN "none" ELSE "parse"
    /\ UNCHANGED <<result, has_radec, row_i, min_distance, closest_row>>
    /\ UNCHANGED <<cfgVars, envVars, auxVars, parseVars, detVars, cache, runVars, batchVars>>

(* -------------------------- _parse_simbad_row -------------------------- *)
\* Python strings are sequences of one-character strings, so that prefix,
\* strip, digit and substring tests are computed and not assumed.
Digits == {"0", "1", "2", "3", "4", "5", "6", "7", "8", "9"}

RECURSIVE LStrip(_)
LStrip(str) == IF str # << >> /\ Head(str) = " " THEN LStrip(Tail(str)) ELSE str
RECURSIVE RStrip(_)
RStrip(str) ==
    IF str # << >> /\ str[Len(str)] = " " THEN RStrip(SubSeq(str, 1, Len(str) - 1)) ELSE str
\* str.strip()
Strip(str) == RStrip(LStrip(str))
\* str[n:]
From(str, n) == SubSeq(str, n + 1, Len(str))
\* str.startswith(prefix)
StartsWith(str, prefix) ==
    Len(str) >= Len(prefix) /\ SubSeq(str, 1, Len(prefix)) = prefix
\* sub in str
Contains(str, sub) ==
    \E i \in 1..(Len(str) - Len(sub) + 1) : SubSeq(str, i, i + Len(sub) - 1) = sub
\* str.isdigit()
IsDigit(str) == str # << >> /\ \A i \in DOMAIN str : str[i] \in Digits

\* a masked table cell, and a masked ids cell
Masked == <<"--masked--">>
MaskedIds == <<Masked>>

\* Python's None where a string is expected (JSON null once serialized), and
\* a key an entry does not have
NoValue == <<"--None--">>
Omitted == <<"--omitted--">>

\* main identifiers as the service writes them
MainIds ==
    {<<"M", " ", " ", "4", "2">>,
     <<"M", " ", "3", "1">>,
     <<"M", "r", "k", " ", "4", "2", "1">>,
     <<"N", "G", "C", " ", " ", "1", "9", "7", "6">>,
     <<"I", "C", " ", " ", "4", "3", "4">>,
     <<"*", " ", "a", "l", "f", " ", "C", "M", "a">>}

\* the identifiers of the ids cell, already split at '|' (144)
IdsChoices ==
    {MaskedIds,
     <<<<"H", "D", " ", "4", "8", "9", "1", "5">>>>,
     <<<<"H", "D", " ", "4", "8", "9", "1", "5">>, <<"N", "A", "M", "E", " ", "S", "i", "r", "i", "u", "s">>>>,
     <<<<"N", "A", "M", "E", " ", "M", " ", "7", " ", "c", "l", "u", "s", "t", "e", "r">>, <<"N", "A", "M", "E", " ", "P", "t", "o", "l", "e", "m", "y">>>>}

\* object-type codes the service returns: some of the table at 25-43, one
\* code the table does not hold, and the masked cell
OtypeCodes ==
    {<<"G">>, <<"S", "B", "G">>, <<"*">>, <<"V", "*">>, <<"N", "S">>, <<"P", "N">>, <<"U", "n", "k">>, Masked}

\* the sp_type and morph_type cells: masked, blank, or a value
SpTypeCells == {Masked, << >>, <<"A", "1", "V", " ">>}
MorphTypeCells == {Masked, << >>, <<"S", "B", "b">>}

\* simbad_query.py:25-43 and 190  OTYPE_DESCRIPTIONS.get(otype, otype)
OtypeDescription(code) ==
    CASE code = <<"G">> -> <<"G", "a", "l", "a", "x", "y">>
      [] code = <<"S", "B", "G">> -> <<"S", "t", "a", "r", "b", "u", "r", "s", "t", " ", "G", "a", "l", "a", "x", "y">>
      [] code = <<"*">> -> <<"S", "t", "a", "r">>
      [] code = <<"V", "*">> -> <<"V", "a", "r", "i", "a", "b", "l", "e", " ", "S", "t", "a", "r">>
      [] code = <<"N", "S">> -> <<"N", "e", "u", "t", "r", "o", "n", " ", "S", "t", "a", "r">>
      [] code = <<"P", "N">> -> <<"P", "l", "a", "n", "e", "t", "a", "r", "y", " ", "N", "e", "b", "u", "l", "a">>
      [] OTHER -> code

\* simbad_query.py:137-150: main_id, replaced by the first identifier that
\* starts with "NAME "
DisplayName(r) ==
    LET main_id == Strip(r.main_id)
        ids == IF r.ids = MaskedIds THEN << >> ELSE r.ids
        aliases == SelectSeq(ids, LAMBDA id : StartsWith(Strip(id), <<"N", "A", "M", "E", " ">>))
    IN  IF aliases = << >> THEN main_id ELSE Strip(From(Strip(aliases[1]), 5))

\* simbad_query.py:152-156: "M  42" and "M 42" become "M42"
NormalizeName(name) ==
    IF StartsWith(name, <<"M", " ", " ">>) THEN <<"M">> \o Strip(From(name, 3))
    ELSE IF StartsWith(name, <<"M", " ">>) THEN <<"M">> \o Strip(From(name, 2))
    ELSE name

\* simbad_query.py:186-190
Otype(r) == IF r.otype = Masked THEN << >> ELSE Strip(r.otype)

\* simbad_query.py:232-239: the rules in the order of the if/elif chain
Category(name, otype) ==
    IF StartsWith(name, <<"M">>) /\ IsDigit(Strip(From(name, 1))) THEN "Messier"
    ELSE IF StartsWith(name, <<"N", "G", "C">>) \/ StartsWith(name, <<"I", "C">>) THEN "NGC/IC"
    ELSE IF Contains(otype, <<"*">>) \/ Contains(OtypeDescription(otype), <<"S", "t", "a", "r">>)
         THEN "Star"
    ELSE "Deep Sky"

\* simbad_query.py:192-195, 210-213: str(cell).strip() unless the cell is masked
StringCell(cell) == IF cell = Masked THEN NoValue ELSE Strip(cell)

\* simbad_query.py:132-256, the fields that depend on identifiers, type and
\* the two string cells; 248: an empty description becomes None
ParseSimbadRow(r) ==
    LET name == NormalizeName(DisplayName(r))
        otype_description == OtypeDescription(Otype(r)) IN
    [name |-> name,
     catalog |-> Category(name, Otype(r)),
     object_type_description |->
         IF otype_description # << >> THEN otype_description ELSE NoValue,
     spectral_type |-> StringCell(r.sp_type),
     morphological_type |-> StringCell(r.morph_type)]

\* no CelestialObject yet
NoParsed ==
    [name |-> << >>, catalog |-> None, object_type_description |-> NoValue,
     spectral_type |-> NoValue, morphological_type |-> NoValue]

\* tool.py:418-446: the entry of one identified object, its string fields:
\* "subtype" is set in the literal (421), the two others only behind their
\* tests (441-444)
ObjDict(p) ==
    [name |-> p.name,
     subtype |-> p.object_type_description,
     spectral_type |->
         IF p.spectral_type # NoValue THEN p.spectral_type ELSE Omitted,
     morphological_type |->
         IF p.morphological_type # NoValue /\ p.morphological_type # << >>
           THEN p.morphological_type ELSE Omitted]

\* no entry yet
NoEntry ==
    [name |-> << >>, subtype |-> Omitted, spectral_type |-> Omitted,
     morphological_type |-> Omitted]

ParseIdle ==
    /\ row = [main_id |-> << >>, ids |-> MaskedIds, otype |-> Masked,
              sp_type |-> Masked, morph_type |-> Masked]
    /\ parsed = NoParsed
    /\ obj_dict = NoEntry

\* simbad_query.py:126  return _parse_simbad_row(closest_row, ...)
ParseRow ==
    /\ row.main_id # << >>
    /\ parsed = NoParsed
    /\ parsed' = ParseSimbadRow(row)
    /\ UNCHANGED <<row, obj_dict>>
    /\ UNCHANGED <<cfgVars, envVars, auxVars, closestVars, detVars, cache, runVars, batchVars>>

\* tool.py:413-446: the entry is built from the object the parser returned
BuildEntry ==
    /\ parsed # NoParsed
    /\ obj_dict = NoEntry
    /\ obj_dict' = ObjDict(parsed)
    /\ UNCHANGED <<row, parsed>>
    /\ UNCHANGED <<cfgVars, envVars, auxVars, closestVars, detVars, cache, runVars, batchVars>>

(* ------------- ContrastDetector.detect: merge pass and sort ------------ *)
\* Pixel coordinates are exact fractions [n, d]. The components of SpecDetect
\* lie on one pixel row, so pixel_y is the same for all of them, the
\* weighted mean of pixel_y is that same value, and the distance of
\* contrast_detector.py:198-201 is the absolute difference of pixel_x.

\* areas of components: the smallest the size filter lets through (129) and
\* one large enough for two such components to overlap by their radii
AreaChoices == {MinAreaPx, 8 * MinAreaPx}

\* the largest total area a merge can produce
MaxTotalArea == MaxComp * 8 * MinAreaPx

\* contrast_detector.py:147, 224  sqrt(area / pi), rounded down to 1/RadiusScale px
RadiusTable ==
    [a \in 0..MaxTotalArea |->
        CHOOSE r \in 0..(RadiusScale * a) :
            /\ r * r * PiNum <= a * RadiusScale * RadiusScale * PiDen
            /\ (r + 1) * (r + 1) * PiNum > a * RadiusScale * RadiusScale * PiDen]
Radius(a) == RadiusTable[a]

\* contrast_detector.py:147-162: the DetectedObject of a component
Component(col, b, a) ==
    [x |-> [n |-> col + col, d |-> 1],
     radius |-> Radius(a),
     brightness |-> b,
     area_px |-> a,
     is_point_source |-> (a < 50 /\ Radius(a) < 5 * RadiusScale)]

Components ==
    {Component(col, b, a) : col \in 0..MaxCol, b \in 1..MaxBright, a \in AreaChoices}

Abs(k) == IF k < 0 THEN 0 - k ELSE k

\* contrast_detector.py:198-206: distance < merge_distance_px or
\* distance < obj1.radius + obj2.radius
Near(o1, o2) ==
    LET num == Abs(o1.x.n * o2.x.d - o2.x.n * o1.x.d)
        den == o1.x.d * o2.x.d
    IN  \/ num < MergeDistancePx * den
        \/ num * RadiusScale < (o1.radius + o2.radius) * den

\* sums and maximum over a list of objects (213-223)
RECURSIVE SumBrightness(_)
SumBrightness(os) == IF os = << >> THEN 0 ELSE Head(os).brightness + SumBrightness(Tail(os))
RECURSIVE SumArea(_)
SumArea(os) == IF os = << >> THEN 0 ELSE Head(os).area_px + SumArea(Tail(os))
RECURSIVE MaxBrightness(_)
MaxBrightness(os) ==
    IF Len(os) = 1 THEN Head(os).brightness
    ELSE LET m == MaxBrightness(Tail(os)) IN
         IF Head(os).brightness > m THEN Head(os).brightness ELSE m
RECURSIVE MaxRadius(_)
MaxRadius(os) ==
    IF Len(os) = 1 THEN Head(os).radius
    ELSE LET m == MaxRadius(Tail(os)) IN IF Head(os).radius > m THEN Head(os).radius ELSE m
\* sum of pixel_x * weight, as one fraction
RECURSIVE SumX(_, _)
SumX(os, weighted) ==
    IF os = << >> THEN [n |-> 0, d |-> 1]
    ELSE LET rest == SumX(Tail(os), weighted)
             w == IF weighted THEN Head(os).brightness ELSE 1
         IN  [n |-> Head(os).x.n * w * rest.d + rest.n * Head(os).x.d,
              d |-> Head(os).x.d * rest.d]

\* contrast_detector.py:211-231: the object that replaces a group
MergedObject(to_merge) ==
    LET total_brightness == SumBrightness(to_merge)
        total_area == SumArea(to_merge)
        sx == SumX(to_merge, total_brightness > 0)
        div == IF total_brightness > 0 THEN total_brightness ELSE Len(to_merge)
    IN  [x |-> [n |-> sx.n, d |-> sx.d * div],
         radius |-> IF total_area > 0 THEN Radius(total_area) ELSE MaxRadius(to_merge),
         brightness |-> MaxBrightness(to_merge),
         area_px |-> total_area,
         is_point_source |-> FALSE]

\* the indexes of a set, in increasing order
RECURSIVE Ascending(_)
Ascending(S) ==
    IF S = {} THEN << >>
    ELSE LET m == CHOOSE k \in S : \A l \in S : k <= l IN <<m>> \o Ascending(S \ {m})

\* contrast_detector.py:185-231: the outer loop from index i on. Every unused
\* object near objects[i] joins its group; nearness is tested against
\* objects[i] as it came in, not against the group gathered so far.
RECURSIVE MergeFrom(_, _, _)
MergeFrom(objects, i, used) ==
    IF i > Len(objects) THEN << >>
    ELSE IF i \in used THEN MergeFrom(objects, i + 1, used)
    ELSE LET group == {j \in DOMAIN objects \ (used \cup {i}) : Near(objects[i], objects[j])}
             to_merge == [k \in 1..(Cardinality(group) + 1) |->
                             objects[(<<i>> \o Ascending(group))[k]]]
             m == IF group = {} THEN objects[i] ELSE MergedObject(to_merge)
         IN  <<m>> \o MergeFrom(objects, i + 1, used \cup {i} \cup group)

\* contrast_detector.py:172-235
MergeNearbyObjects(objects) ==
    IF Len(objects) <= 1 \/ MergeDistancePx <= 0 THEN objects
    ELSE MergeFrom(objects, 1, {})

DetectIdle ==
    /\ raw_objects = << >>
    /\ merged_objects = << >>
    /\ detect_return = << >>
    /\ dpc = "idle"

\* contrast_detector.py:165
MergeStep ==
    /\ dpc = "merge"
    /\ merged_objects' = MergeNearbyObjects(raw_objects)
    /\ dpc' = "sort"
    /\ UNCHANGED <<raw_objects, detect_return>>
    /\ UNCHANGED <<cfgVars, envVars, auxVars, closestVars, parseVars, cache, runVars, batchVars>>

\* contrast_detector.py:168-170
SortStep ==
    /\ dpc = "sort"
    /\ detect_return' = Detect(merged_objects)
    /\ dpc' = "returned"
    /\ UNCHANGED <<raw_objects, merged_objects>>
    /\ UNCHANGED <<cfgVars, envVars, auxVars, closestVars, parseVars, cache, runVars, batchVars>>

(* ----------------------------- capture_sky ----------------------------- *)
ResetBatch ==
    /\ bpc' = "idle"
    /\ positions' = << >>
    /\ max_workers' = PipelineMaxWorkers
    /\ fut' = << >>
    /\ results' = << >>
    /\ errlog' = {}

(* ----------------------- SkyCaptureTool.__init__ ----------------------- *)
\* the values test_plate_solver.py:21,39 gives plate_solving_method
Methods == {"custom_remote", "astrometry_net"}

\* the class each method names (plate_solver/custom_remote_solver.py:12,
\* astrometry_net_solver.py:9; test_plate_solver.py:23-27, 41-45)
SolverFor(m) ==
    IF m = "custom_remote" THEN "CustomRemotePlateSolver" ELSE "AstrometryNetPlateSolver"

\* tool.py:36-38: __init__ stores get_config_from_env() and nothing else;
\* tool.py imports neither solver class (1-32) and AppConfig has no
\* plate_solving_method field (config.py:25-41)
Constructed(m) == [plate_solver |-> None, instantiated |-> {}]

\* the tool as the pipeline of Spec holds it: constructed
ToolIdle ==
    /\ plate_solving_method = "custom_remote"
    /\ plate_solver = Constructed("custom_remote").plate_solver
    /\ instantiated = Constructed("custom_remote").instantiated
    /\ delegated = 0
    /\ tpc = "ready"

\* tool.py:36-38: SkyCaptureTool()
Construct ==
    /\ tpc = "new"
    /\ plate_solver' = Constructed(plate_solving_method).plate_solver
    /\ instantiated' = instantiated \cup Constructed(plate_solving_method).instantiated
    /\ tpc' = "ready"
    /\ UNCHANGED <<plate_solving_method, delegated>>
    /\ UNCHANGED <<cfgVars, envVars, closestVars, parseVars, detVars, serverVars,
                   streamVars, cache, runVars, batchVars>>

(* ---------------- astrometry_server/server.py: /solve ------------------ *)
\* Every request works on the same two paths, built from the fixed base name
\* "upload" (server.py:16-18), and app.run (62) serves each request on a
\* thread of its own, so the steps of two requests interleave.
MaxReq == 2

\* a request: where its handler is, the image it uploaded, the image
\* solve-field loaded for it, and the answer sent
Request(pc, img, loaded, status, wcs_content) ==
    [pc |-> pc, img |-> img, loaded |-> loaded, status |-> status, wcs |-> wcs_content]

ServerIdle ==
    /\ img_file = None
    /\ wcs_file = None
    /\ req = [r \in 1..MaxReq |-> Request("idle", None, None, None, None)]

\* server.py:11-18: a request arrives with its image
Receive(r) ==
    /\ req[r].pc = "idle"
    /\ \E img \in Images : req' = [req EXCEPT ![r] = Request("clean", img, None, None, None)]
    /\ UNCHANGED <<img_file, wcs_file>>
    /\ UNCHANGED <<cfgVars, envVars, closestVars, parseVars, detVars, toolVars,
                   streamVars, cache, runVars, batchVars>>

\* server.py:20-23: the files of earlier executions are removed
CleanOld(r) ==
    /\ req[r].pc = "clean"
    /\ wcs_file' = None
    /\ req' = [req EXCEPT ![r].pc = "save"]
    /\ UNCHANGED img_file
    /\ UNCHANGED <<cfgVars, envVars, closestVars, parseVars, detVars, toolVars,
                   streamVars, cache, runVars, batchVars>>

\* server.py:25  img.save(img_path)
SaveImage(r) ==
    /\ req[r].pc = "save"
    /\ img_file' = req[r].img
    /\ req' = [req EXCEPT ![r].pc = "run"]
    /\ UNCHANGED wcs_file
    /\ UNCHANGED <<cfgVars, envVars, closestVars, parseVars, detVars, toolVars,
                   streamVars, cache, runVars, batchVars>>

\* server.py:29-45: solve-field starts and loads the image at img_path
SolveFieldLoad(r) ==
    /\ req[r].pc = "run"
    /\ req' = [req EXCEPT ![r].pc = "solving", ![r].loaded = img_file]
    /\ UNCHANGED <<img_file, wcs_file>>
    /\ UNCHANGED <<cfgVars, envVars, closestVars, parseVars, detVars, toolVars,
                   streamVars, cache, runVars, batchVars>>

\* server.py:45, 58-59: solve-field ends: it has written upload.wcs for the
\* image it loaded (--overwrite), or found no solution, or exits with an
\* error, which is answered with status 500
SolveFieldEnd(r) ==
    /\ req[r].pc = "solving"
    /\ \E outcome \in {"solved", "unsolved", "error"} :
         /\ wcs_file' = IF outcome = "solved" THEN req[r].loaded ELSE wcs_file
         /\ req' = IF outcome = "error"
                     THEN [req EXCEPT ![r].pc = "answered", ![r].status = "500"]
                     ELSE [req EXCEPT ![r].pc = "check"]
    /\ UNCHANGED img_file
    /\ UNCHANGED <<cfgVars, envVars, closestVars, parseVars, detVars, toolVars,
                   streamVars, cache, runVars, batchVars>>

\* server.py:47-56: the content of upload.wcs is returned if the file exists
Respond(r) ==
    /\ req[r].pc = "check"
    /\ req' = IF wcs_file # None
                THEN [req EXCEPT ![r].pc = "answered", ![r].status = "success",
                                 ![r].wcs = wcs_file]
                ELSE [req EXCEPT ![r].pc = "answered", ![r].status = "422"]
    /\ UNCHANGED <<img_file, wcs_file>>
    /\ UNCHANGED <<cfgVars, envVars, closestVars, parseVars, detVars, toolVars,
                   streamVars, cache, runVars, batchVars>>

(* ------------- api/analyze/controller.py: analyze_image_stream --------- *)
\* The generator is modelled from one suspension point to the next: the
\* awaits on the upload and on the worker threads, and the yields.  The whole
\* body sits in one try whose except clause yields the event "error" and
\* ends the generator (controller.py:56, 211-215).
StreamIdle ==
    /\ spc = "start"
    /\ events = << >>
    /\ analysis_objects = 0
    /\ main_structure = None

\* controller.py:58-62: the upload is read and encoded, then the first
\* event is yielded; the read is inside the try and ahead of that yield
ReadUpload ==
    /\ spc = "start"
    /\ \E read \in BOOLEAN :
         /\ events' = Append(events, IF read THEN "analyzing_image" ELSE "error")
         /\ spc' = IF read THEN "capture" ELSE "closed"
    /\ UNCHANGED <<analysis_objects, main_structure>>
    /\ UNCHANGED <<cfgVars, envVars, closestVars, parseVars, detVars, toolVars,
                   serverVars, cache, runVars, batchVars>>

\* controller.py:65-73: capture_sky runs in a thread; it raises (tool.py:357,
\* 370, 385, 466 and the stage failures), or returns its result, whose
\* success flag the controller tests before going on
CaptureSky ==
    /\ spc = "capture"
    /\ \E outcome \in {"raised", "unsuccessful", "result"} :
         IF outcome = "result"
           THEN /\ \E n \in 0..MaxDet : analysis_objects' = n
                /\ spc' = "gemini"
                /\ UNCHANGED events
           ELSE /\ events' = Append(events, "error")
                /\ spc' = "closed"
                /\ UNCHANGED analysis_objects
    /\ UNCHANGED main_structure
    /\ UNCHANGED <<cfgVars, envVars, closestVars, parseVars, detVars, toolVars,
                   serverVars, cache, runVars, batchVars>>

\* variant: the exception of the Gemini step reaches the outer except clause
GeminiStepEventUncaught(outcome) ==
    IF outcome = "raised" THEN "error" ELSE "analysis_complete"
\* controller.py:77-151: the step has a try/except of its own that only
\* prints, so analysis_complete is yielded however the step went
GeminiStepEvent(outcome) == "analysis_complete"

\* controller.py:75-151: Gemini names a main structure or none, the catalog
\* knows it or not, or something in the step raises; a structure that was
\* found is inserted at the head of identified_objects (134)
GeminiStep ==
    /\ spc = "gemini"
    /\ \E outcome \in {"none", "not_in_simbad", "inserted", "raised"} :
         /\ main_structure' = outcome
         /\ analysis_objects' =
                IF outcome = "inserted" THEN analysis_objects + 1 ELSE analysis_objects
         /\ events' = Append(events, GeminiStepEvent(outcome))
         /\ spc' = IF GeminiStepEvent(outcome) = "error" THEN "closed" ELSE "narration"
    /\ UNCHANGED <<cfgVars, envVars, closestVars, parseVars, detVars, toolVars,
                   serverVars, cache, runVars, batchVars>>

\* controller.py:155  yield generating_narration
AnnounceNarration ==
    /\ spc = "narration"
    /\ events' = Append(events, "generating_narration")
    /\ spc' = "narrate"
    /\ UNCHANGED <<analysis_objects, main_structure>>
    /\ UNCHANGED <<cfgVars, envVars, closestVars, parseVars, detVars, toolVars,
                   serverVars, cache, runVars, batchVars>>

\* controller.py:158-181: the narration is generated in a thread and the
\* legends are merged; an exception goes to the outer except clause
Narrate ==
    /\ spc = "narrate"
    /\ \E ok \in BOOLEAN :
         /\ events' = Append(events, IF ok THEN "narration_complete" ELSE "error")
         /\ spc' = IF ok THEN "audio" ELSE "closed"
    /\ UNCHANGED <<analysis_objects, main_structure>>
    /\ UNCHANGED <<cfgVars, envVars, closestVars, parseVars, detVars, toolVars,
                   serverVars, cache, runVars, batchVars>>

\* controller.py:184  yield generating_audio
AnnounceAudio ==
    /\ spc = "audio"
    /\ events' = Append(events, "generating_audio")
    /\ spc' = "tts"
    /\ UNCHANGED <<analysis_objects, main_structure>>
    /\ UNCHANGED <<cfgVars, envVars, closestVars, parseVars, detVars, toolVars,
                   serverVars, cache, runVars, batchVars>>

\* controller.py:187-209: the audio is generated in a thread and its URL
\* sent as the last event; an exception goes to the outer except clause
GenerateAudio ==
    /\ spc = "tts"
    /\ \E ok \in BOOLEAN :
         events' = Append(events, IF ok THEN "audio_complete" ELSE "error")
    /\ spc' = "closed"
    /\ UNCHANGED <<analysis_objects, main_structure>>
    /\ UNCHANGED <<cfgVars, envVars, closestVars, parseVars, detVars, toolVars,
                   serverVars, cache, runVars, batchVars>>

AuxIdle == ToolIdle /\ ServerIdle /\ StreamIdle

\* tool.py:344-361: a new call of capture_sky decodes its image; a payload
\* that does not decode raises before any stage starts
StartRun ==
    /\ tpc = "ready"
    /\ stage \in {"Idle", "Done", "Failed"}
    /\ runs < MaxRuns
    /\ runs' = runs + 1
    /\ \E img \in Images \cup {None} :
         /\ image' = img
         /\ stage' = IF img = None THEN "Failed" ELSE "Solving"
         /\ step' = IF img = None THEN "-" ELSE "begin"
         /\ exc' = IF img = None THEN "decode" ELSE None
    /\ wcs' = NoFile
    /\ wcsSource' = None
    /\ solverCalls' = 0
    /\ response' = None
    /\ detected_objects' = << >>
    /\ retained' = << >>
    /\ celestial_positions' = << >>
    /\ celestial_objects' = << >>
    /\ identified_objects' = << >>
    /\ ResetBatch
    /\ UNCHANGED <<cfgVars, envVars, fnVars, cache>>

\* variant: the cache file is never consulted
CacheNeverHit(use, c) == FALSE
\* variant: a file that exists is taken as a header without being loaded
CacheHitTrustingFile(use, c) == use /\ c # NoFile
\* tool.py:94-102: the cached header is returned when caching is enabled, the
\* file exists and unpickles
CacheHit(use, c) == use /\ c # NoFile /\ IsSolution(c)

\* tool.py:369-370: a header without CRVAL1/CRVAL2 ends the run
StageAfterSolve(w) == IF w.crval THEN "Detecting" ELSE "Failed"
ExcAfterSolve(w) == IF w.crval THEN None ELSE "no_center"

\* tool.py:91-116: _plate_solve up to the request to the astrometry server.
\* requests.post(url, files=...) is called without a timeout (116): the call
\* comes back when the server answers or the connection fails ("posted"), and
\* blocks for good when the server never responds ("unanswered");
\* config.plate_solving_timeout (config.py:31) is read nowhere.
PlateSolveBegin ==
    /\ stage = "Solving"
    /\ step = "begin"
    /\ IF CacheHit(use_cache, cache)
         THEN /\ wcs' = cache
              /\ wcsSource' = "cache"
              /\ stage' = StageAfterSolve(cache)
              /\ step' = IF cache.crval THEN "detect" ELSE "-"
              /\ exc' = ExcAfterSolve(cache)
              /\ UNCHANGED solverCalls
         ELSE /\ solverCalls' = solverCalls + 1
              /\ step' \in {"posted", "unanswered"}
              /\ UNCHANGED <<wcs, wcsSource, stage, exc>>
    /\ UNCHANGED <<cfgVars, envVars, fnVars, cache, runs, image, response, detected_objects, retained,
                   celestial_positions, celestial_objects, identified_objects, batchVars>>

\* what requests.post and the server can answer (tool.py:116-151)
SolverResponses ==
    {"ok", "ok_no_crval", "non200", "bad_json", "not_success", "no_wcs",
     "bad_header", "network_error"}

\* tool.py:118-132: status 200, a JSON body, status "success", WCS content
\* that parses
ResponseOk(r) == r \in {"ok", "ok_no_crval"}

\* variant: a failed answer falls back to the header in the cache file
SolveResultOrStaleCache(r, img, c) ==
    IF ResponseOk(r) THEN [ok |-> TRUE, wcs |-> Solution(img, r = "ok")]
    ELSE IF IsSolution(c) THEN [ok |-> TRUE, wcs |-> c]
    ELSE [ok |-> FALSE, wcs |-> NoFile]
\* tool.py:118-151: the header a response yields, or the RuntimeError
SolveResult(r, img, c) ==
    IF ResponseOk(r) THEN [ok |-> TRUE, wcs |-> Solution(img, r = "ok")]
    ELSE [ok |-> FALSE, wcs |-> NoFile]

\* tool.py:134-141: the file after the attempt to save the header: written,
\* untouched (makedirs or open failed) or truncated (the dump failed)
CacheWrites(c, sol) == {sol, c, Corrupt}

\* variant: the header is saved before the answer is validated
CacheAfterAlways(ok, c, sol) == CacheWrites(c, sol)
\* tool.py:118-141: the save sits behind every check of the answer, so a
\* failed solver call never touches the file
CacheAfter(ok, c, sol) == IF ok THEN CacheWrites(c, sol) ELSE {c}

\* variant: the save is not guarded, its exception ends _plate_solve
AfterCacheWriteUnguarded(written, sol) ==
    IF written THEN [ok |-> TRUE, wcs |-> sol] ELSE [ok |-> FALSE, wcs |-> NoFile]
\* tool.py:135-143: the save is wrapped in try/except, the exception is
\* logged and wcs_header is returned either way
AfterCacheWrite(written, sol) == [ok |-> TRUE, wcs |-> sol]

\* tool.py:116-156: the answer arrives; on success the header is saved to the
\* cache file (whatever plate_solving_use_cache says) and returned
SolverRespond ==
    /\ stage = "Solving"
    /\ step = "posted"
    /\ \E r \in SolverResponses :
         LET res == SolveResult(r, image, cache) IN
         \E c2 \in CacheAfter(res.ok, cache, res.wcs) :
         LET out == IF res.ok THEN AfterCacheWrite(c2 = res.wcs, res.wcs) ELSE res IN
         /\ response' = r
         /\ cache' = c2
         /\ IF out.ok
              THEN /\ wcs' = out.wcs
                   /\ wcsSource' = "solver"
                   /\ stage' = StageAfterSolve(out.wcs)
                   /\ step' = IF out.wcs.crval THEN "detect" ELSE "-"
                   /\ exc' = ExcAfterSolve(out.wcs)
              ELSE /\ stage' = "Failed"
                   /\ step' = "-"
                   /\ exc' = "solver"
                   /\ UNCHANGED <<wcs, wcsSource>>
    /\ UNCHANGED <<cfgVars, envVars, fnVars, runs, image, solverCalls, detected_objects, retained,
                   celestial_positions, celestial_objects, identified_objects, batchVars>>

\* tool.py:382-388: the detector runs on the image
DetectObjects ==
    /\ stage = "Detecting"
    /\ step = "detect"
    /\ \E merged \in MergedLists : detected_objects' = Detect(merged)
    /\ step' = "truncate"
    /\ UNCHANGED <<cfgVars, envVars, fnVars, cache, runs, stage, image, wcs, wcsSource, solverCalls,
                   response, exc, retained, celestial_positions, celestial_objects,
                   identified_objects, batchVars>>

\* tool.py:183: sorts the caller's list object in place
SortInPlace(list) == SortByBrightness(list)

\* tool.py:180-184: _identify_objects caps the list; the sort acts on the
\* list capture_sky holds, the slice is bound to the local name only
LimitDetections ==
    /\ stage = "Detecting"
    /\ step = "truncate"
    /\ IF Len(detected_objects) > max_query_objects
         THEN /\ detected_objects' = SortInPlace(detected_objects)
              /\ retained' = Truncate(SortInPlace(detected_objects), max_query_objects)
         ELSE /\ retained' = detected_objects
              /\ UNCHANGED detected_objects
    /\ stage' = "Mapping"
    /\ step' = "-"
    /\ UNCHANGED <<cfgVars, envVars, fnVars, cache, runs, image, wcs, wcsSource, solverCalls, response,
                   exc, celestial_positions, celestial_objects, identified_objects,
                   batchVars>>

\* variant: a failed conversion is passed over and the loop goes on
MapStepSkipping(ok, cp, det, sol) ==
    IF ok THEN [stage |-> "Mapping", cp |-> Append(cp, Sky(sol.img, det.px))]
    ELSE [stage |-> "Mapping", cp |-> Append(cp, Sky(None, 0))]
\* tool.py:192-201: one iteration of the conversion loop: the position is
\* appended, or the failure is re-raised as RuntimeError
MapStep(ok, cp, det, sol) ==
    IF ok THEN [stage |-> "Mapping", cp |-> Append(cp, Sky(sol.img, det.px))]
    ELSE [stage |-> "Failed", cp |-> cp]

MapOne ==
    /\ stage = "Mapping"
    /\ Len(celestial_positions) < Len(retained)
    /\ \E ok \in BOOLEAN :
         LET m == MapStep(ok, celestial_positions,
                          retained[Len(celestial_positions) + 1], wcs) IN
         /\ stage' = m.stage
         /\ celestial_positions' = m.cp
         /\ exc' = IF ok THEN exc ELSE "transform"
    /\ UNCHANGED <<cfgVars, envVars, fnVars, cache, runs, step, image, wcs, wcsSource, solverCalls,
                   response, detected_objects, retained, celestial_objects,
                   identified_objects, batchVars>>

\* variant: the batch is called as soon as one position exists
MappingDoneEarly(cp, ret) == Len(cp) >= 1 \/ ret = << >>
\* tool.py:191: the loop is over
MappingDone(cp, ret) == Len(cp) = Len(ret)

\* tool.py:207-212: the whole position list goes to one batch call
CallBatch ==
    /\ stage = "Mapping"
    /\ MappingDone(celestial_positions, retained)
    /\ stage' = "Resolving"
    /\ bpc' = "called"
    /\ positions' = celestial_positions
    /\ max_workers' = PipelineMaxWorkers
    /\ UNCHANGED <<cfgVars, envVars, fnVars, cache, runs, step, image, wcs, wcsSource, solverCalls,
                   response, exc, detected_objects, retained, celestial_positions,
                   celestial_objects, identified_objects, fut, results, errlog>>

\* tool.py:214-216, 394-406: _identify_objects returns the batch's list and
\* the image is annotated; a drawing failure raises RuntimeError (286) from
\* inside the loop over the identified objects (260-286), so only a run with
\* an identified object can fail there
BatchDone ==
    /\ stage = "Resolving"
    /\ bpc \in {"returned", "raised"}
    /\ IF bpc = "raised"
         THEN /\ stage' = "Failed"
              /\ exc' = "pool"
              /\ UNCHANGED celestial_objects
         ELSE /\ celestial_objects' = results
              /\ \E drawn \in IF \E i \in DOMAIN results :
                                      i <= Len(detected_objects) /\ results[i] # NoObject
                                 THEN BOOLEAN ELSE {TRUE} :
                   /\ stage' = IF drawn THEN "Assembling" ELSE "Failed"
                   /\ exc' = IF drawn THEN exc ELSE "annotate"
    /\ bpc' = "idle"
    /\ UNCHANGED <<cfgVars, envVars, fnVars, cache, runs, step, image, wcs, wcsSource, solverCalls,
                   response, detected_objects, retained, celestial_positions,
                   identified_objects, positions, max_workers, fut, results, errlog>>

\* tool.py:413-448: zip(detected_objects, celestial_objects) stops at the
\* shorter list; a None object adds no entry
ZipObjects(dets, objs) ==
    [i \in 1..Min(Len(dets), Len(objs)) |-> [pixel |-> dets[i].px, object |-> objs[i]]]

BuildIdentified(dets, objs) ==
    SelectSeq(ZipObjects(dets, objs), LAMBDA e : e.object # NoObject)

\* tool.py:412-470: the result is built and written to analysis.json; a
\* failed write raises RuntimeError and nothing is returned
Assemble ==
    /\ stage = "Assembling"
    /\ \E saved \in BOOLEAN :
         IF saved
           THEN /\ identified_objects' = BuildIdentified(detected_objects, celestial_objects)
                /\ stage' = "Done"
                /\ UNCHANGED exc
           ELSE /\ identified_objects' = << >>
                /\ stage' = "Failed"
                /\ exc' = "save"
    /\ UNCHANGED <<cfgVars, envVars, fnVars, cache, runs, step, image, wcs, wcsSource, solverCalls,
                   response, detected_objects, retained, celestial_positions,
                   celestial_objects, batchVars>>

Init ==
    /\ use_cache \in BOOLEAN
    /\ max_query_objects \in 0..MaxCap
    /\ cache \in {NoFile, Corrupt}
    /\ runs = 0
    /\ stage = "Idle"
    /\ step = "-"
    /\ image = None
    /\ wcs = NoFile
    /\ wcsSource = None
    /\ solverCalls = 0
    /\ response = None
    /\ exc = None
    /\ detected_objects = << >>
    /\ retained = << >>
    /\ celestial_positions = << >>
    /\ celestial_objects = << >>
    /\ identified_objects = << >>
    /\ bpc = "idle"
    /\ positions = << >>
    /\ max_workers = PipelineMaxWorkers
    /\ fut = << >>
    /\ results = << >>
    /\ errlog = {}
    /\ silent = {}
    /\ ClosestIdle /\ ParseIdle /\ DetectIdle /\ AuxIdle

Next ==
    \/ StartRun
    \/ PlateSolveBegin
    \/ SolverRespond
    \/ DetectObjects
    \/ LimitDetections
    \/ MapOne
    \/ CallBatch
    \/ BatchStart
    \/ Dispatch
    \/ \E i \in DOMAIN fut : Complete(i)
    \/ BatchReturn
    \/ BatchDone
    \/ Assemble

Spec == Init /\ [][Next]_vars

(* ------------------- what a failed run hands its caller ---------------- *)
\* controller.py:211-215: the exception of a failed run is caught by the
\* analysis endpoint and sent as one event whose data is {"error": str(e)};
\* the exceptions capture_sky raises are RuntimeError, Exception and
\* ValueError built from a message (tool.py:119-151, 198, 286, 357, 370, 385,
\* 466), with no further attribute
ErrorEvent(e) == [event |-> "error", data |-> [error |-> e]]

(* --------------------- SpecBatch: one batch call ----------------------- *)
InitBatch ==
    /\ use_cache = FALSE
    /\ max_query_objects = MaxCap
    /\ cache = NoFile
    /\ runs = 0
    /\ stage = "Idle"
    /\ step = "-"
    /\ image = None
    /\ wcs = NoFile
    /\ wcsSource = None
    /\ solverCalls = 0
    /\ response = None
    /\ exc = None
    /\ detected_objects = << >>
    /\ retained = << >>
    /\ celestial_positions = << >>
    /\ celestial_objects = << >>
    /\ identified_objects = << >>
    /\ bpc = "called"
    /\ \E n \in 0..MaxPos : positions = [i \in 1..n |-> Sky("imgA", i)]
    /\ max_workers \in MaxWorkersChoices
    /\ fut = << >>
    /\ results = << >>
    /\ errlog = {}
    /\ silent = {}
    /\ ClosestIdle /\ ParseIdle /\ DetectIdle /\ AuxIdle

NextBatch ==
    \/ BatchStart
    \/ Dispatch
    \/ \E i \in DOMAIN fut : Complete(i)
    \/ BatchReturn

SpecBatch == InitBatch /\ [][NextBatch]_vars

(* ---------- SpecLive: the runs of Spec under fair scheduling ----------- *)
\* the thread of a started run keeps running, the pool processes keep
\* running, and an answer the solver or the catalog sends arrives; whether a
\* further run is started is the caller's choice
RunFairness ==
    /\ WF_vars(PlateSolveBegin)
    /\ WF_vars(SolverRespond)
    /\ WF_vars(DetectObjects)
    /\ WF_vars(LimitDetections)
    /\ WF_vars(MapOne)
    /\ WF_vars(CallBatch)
    /\ WF_vars(BatchStart)
    /\ WF_vars(Dispatch)
    /\ \A i \in 1..MaxDet : WF_vars(Complete(i))
    /\ WF_vars(BatchReturn)
    /\ WF_vars(BatchDone)
    /\ WF_vars(Assemble)

SpecLive == Init /\ [][Next]_vars /\ RunFairness

(* ------- SpecBatchLive: one batch call against a service that may ------ *)
(* ------- never answer some of the queries, under fair scheduling  ------ *)
InitBatchLive ==
    /\ use_cache = FALSE
    /\ max_query_objects = MaxCap
    /\ cache = NoFile
    /\ runs = 0
    /\ stage = "Idle"
    /\ step = "-"
    /\ image = None
    /\ wcs = NoFile
    /\ wcsSource = None
    /\ solverCalls = 0
    /\ response = None
    /\ exc = None
    /\ detected_objects = << >>
    /\ retained = << >>
    /\ celestial_positions = << >>
    /\ celestial_objects = << >>
    /\ identified_objects = << >>
    /\ bpc = "called"
    /\ \E n \in 0..MaxSilentPos :
         /\ positions = [i \in 1..n |-> Sky("imgA", i)]
         /\ silent \in SUBSET (1..n)
    /\ max_workers \in MaxWorkersChoices
    /\ fut = << >>
    /\ results = << >>
    /\ errlog = {}
    /\ ClosestIdle /\ ParseIdle /\ DetectIdle /\ AuxIdle

\* the parent process and the pool processes keep running: every step of
\* the call that can be taken is taken, and every query the service
\* answers, or that fails, ends
BatchFairness ==
    /\ WF_vars(BatchStart)
    /\ WF_vars(Dispatch)
    /\ \A i \in 1..MaxSilentPos : WF_vars(Complete(i))
    /\ WF_vars(BatchReturn)

SpecBatchLive == InitBatchLive /\ [][NextBatch]_vars /\ BatchFairness

(* ------------ SpecClosest: the scan of one result table -------------- *)
\* the tables of up to MaxRows rows (the emptiness test at 88-89 has passed)
Tables == UNION {[1..n -> Rows] : n \in 1..MaxRows}

InitClosest ==
    /\ PipelineIdle /\ ParseIdle /\ DetectIdle /\ AuxIdle
    /\ result \in Tables
    /\ has_radec \in BOOLEAN
    /\ row_i = 1
    /\ min_distance = Inf
    /\ closest_row = 0
    /\ qpc = "scan"

NextClosest ==
    \/ ScanRow
    \/ ScanEnd

SpecClosest == InitClosest /\ [][NextClosest]_vars

(* --------------- SpecParse: one row through the parser ----------------- *)
InitParse ==
    /\ PipelineIdle /\ ClosestIdle /\ DetectIdle /\ AuxIdle
    /\ row \in [main_id : MainIds, ids : IdsChoices, otype : OtypeCodes,
                 sp_type : SpTypeCells, morph_type : MorphTypeCells]
    /\ parsed = NoParsed
    /\ obj_dict = NoEntry

NextParse ==
    \/ ParseRow
    \/ BuildEntry

SpecParse == InitParse /\ [][NextParse]_vars

(* ------------- SpecDetect: detect from the merge pass on --------------- *)
\* up to MaxComp components, in any label order, no two on the same column
InitDetect ==
    /\ PipelineIdle /\ ClosestIdle /\ ParseIdle /\ AuxIdle
    /\ raw_objects \in UNION {[1..n -> Components] : n \in 0..MaxComp}
    /\ \A i, j \in DOMAIN raw_objects : i # j => raw_objects[i].x # raw_objects[j].x
    /\ merged_objects = << >>
    /\ detect_return = << >>
    /\ dpc = "merge"

NextDetect ==
    \/ MergeStep
    \/ SortStep

SpecDetect == InitDetect /\ [][NextDetect]_vars

(* ------- SpecTool: the tool is constructed, then runs capture_sky ------ *)
InitTool ==
    /\ use_cache \in BOOLEAN
    /\ max_query_objects \in 0..MaxCap
    /\ cache \in {NoFile, Corrupt}
    /\ runs = 0
    /\ stage = "Idle"
    /\ step = "-"
    /\ image = None
    /\ wcs = NoFile
    /\ wcsSource = None
    /\ solverCalls = 0
    /\ response = None
    /\ exc = None
    /\ detected_objects = << >>
    /\ retained = << >>
    /\ celestial_positions = << >>
    /\ celestial_objects = << >>
    /\ identified_objects = << >>
    /\ bpc = "idle"
    /\ positions = << >>
    /\ max_workers = PipelineMaxWorkers
    /\ fut = << >>
    /\ results = << >>
    /\ errlog = {}
    /\ silent = {}
    /\ ClosestIdle /\ ParseIdle /\ DetectIdle
    /\ plate_solving_method \in Methods
    /\ plate_solver = None
    /\ instantiated = {}
    /\ delegated = 0
    /\ tpc = "new"
    /\ ServerIdle /\ StreamIdle

NextTool ==
    \/ Construct
    \/ Next

SpecTool == InitTool /\ [][NextTool]_vars

(* ------ SpecServer: MaxReq requests to /solve, served concurrently ----- *)
\* the working directory may hold the files of an earlier execution
InitServer ==
    /\ PipelineIdle /\ ClosestIdle /\ ParseIdle /\ DetectIdle /\ ToolIdle /\ StreamIdle
    /\ img_file \in Images \cup {None}
    /\ wcs_file \in Images \cup {None}
    /\ req = [r \in 1..MaxReq |-> Request("idle", None, None, None, None)]

NextServer ==
    \E r \in 1..MaxReq :
        \/ Receive(r)
        \/ CleanOld(r)
        \/ SaveImage(r)
        \/ SolveFieldLoad(r)
        \/ SolveFieldEnd(r)
        \/ Respond(r)

SpecServer == InitServer /\ [][NextServer]_vars

(* --------------- SpecStream: one call of /analyze ---------------------- *)
InitStream ==
    /\ PipelineIdle /\ ClosestIdle /\ ParseIdle /\ DetectIdle /\ AuxIdle

NextStream ==
    \/ ReadUpload
    \/ CaptureSky
    \/ GeminiStep
    \/ AnnounceNarration
    \/ Narrate
    \/ AnnounceAudio
    \/ GenerateAudio

SpecStream == InitStream /\ [][NextStream]_vars

(* ============================== properties ============================= *)

\* what the future of task i delivered to the parent: its return value, or
\* nothing when future.result() raised
Delivered(i) == IF fut[i].kind = "returned" THEN fut[i].value ELSE NoObject

\* C1: whatever the order in which the queries complete, the list that
\* query_simbad_batch returns has one slot per input position, and slot i holds
\* what the query issued for position i delivered (an object or None).
C1_SlotsFollowInputOrder ==
    bpc = "returned" =>
        /\ Len(results) = Len(positions)
        /\ \A i \in 1..Len(positions) : results[i] = Delivered(i)

\* a returned batch of several positions whose first and last slots hold the
\* distinct objects found at their own positions
C1_Witness ==
    /\ bpc = "returned"
    /\ Len(positions) >= 3
    /\ results[1] = Obj(positions[1])
    /\ results[Len(positions) - 1] = Obj(positions[Len(positions) - 1])
    /\ results[1] # results[Len(positions) - 1]

\* C2: at no moment of a batch are more than 6 catalog queries executing,
\* whatever max_workers the caller passed.
C2_AtMostSixConcurrent == Cardinality(Running) <= 6

\* the pipeline's max_workers=10 with the pool full and a task still waiting
C2_Witness ==
    /\ bpc = "pool"
    /\ max_workers = 10
    /\ Cardinality(Running) = 6
    /\ Queued # {}

\* C3: a failing query never aborts the batch: no task failure makes the call
\* raise, every ended task that failed leaves None in its own slot, every
\* ended task that did not fail has the catalog's answer for its own position
\* in its slot, and the returned list has all N slots.
C3_FailureDegradesOneSlot ==
    /\ bpc = "raised" => fut = << >>
    /\ bpc \in {"pool", "returned"} =>
         /\ Len(results) = Len(positions)
         /\ \A i \in Ended :
              IF fut[i].failed THEN results[i] = NoObject
              ELSE results[i] = Catalog(positions[i])
    /\ bpc = "returned" => Ended = DOMAIN fut

\* five positions, the third query failed: slot 3 is None, slots 1, 2, 4, 5
\* hold their objects
C3_Witness ==
    /\ bpc = "returned"
    /\ Len(positions) = 5
    /\ fut[3].failed
    /\ results[3] = NoObject
    /\ \A i \in {1, 2, 4, 5} : ~fut[i].failed /\ results[i] = Obj(positions[i])

\* C4: when caching is enabled and the cache file holds a readable solution,
\* _plate_solve returns that solution without posting to the solver, and a
\* run that took its solution from the cache has made no solver call.
C4_CacheHitBypassesSolver ==
    /\ [][ (stage = "Solving" /\ step = "begin" /\ use_cache /\ IsSolution(cache))
             => (wcs' = cache /\ wcsSource' = "cache" /\ solverCalls' = 0
                 /\ step' \notin {"posted", "unanswered"} /\ cache' = cache) ]_vars
    /\ [](wcsSource = "cache" => (solverCalls = 0 /\ wcs = cache /\ response = None))

\* a run that completed on a cached solution
C4_Witness ==
    /\ stage = "Done"
    /\ use_cache
    /\ wcsSource = "cache"
    /\ solverCalls = 0

\* C5: the solution a run takes from the cache was solved from that run's
\* own image.
C5_CachedSolutionIsOfSameImage ==
    wcsSource = "cache" => wcs.img = image

\* C6: after a failed solver answer the run is failed and has done nothing
\* else: no detection, no mapping, no catalog query, no result.
C6_SolverFailureIsFatal ==
    response \in {"non200", "bad_json", "not_success", "no_wcs", "bad_header",
                  "network_error"} =>
        /\ stage = "Failed"
        /\ detected_objects = << >>
        /\ retained = << >>
        /\ celestial_positions = << >>
        /\ bpc = "idle" /\ fut = << >> /\ positions = << >>
        /\ celestial_objects = << >>
        /\ identified_objects = << >>

\* a run failed by a solver answer while the cache file holds a solution
C6_Witness ==
    /\ response = "not_success"
    /\ stage = "Failed"
    /\ exc = "solver"
    /\ IsSolution(cache)

StageRank(st) ==
    CASE st = "Idle" -> 0
      [] st = "Solving" -> 1
      [] st = "Detecting" -> 2
      [] st = "Mapping" -> 3
      [] st = "Resolving" -> 4
      [] st = "Assembling" -> 5
      [] st = "Done" -> 6
      [] st = "Failed" -> 6

C8_TransformFailureIsFatal ==
    exc = "transform" =>
        /\ stage = "Failed"
        /\ bpc = "idle" /\ fut = << >> /\ positions = << >>
        /\ identified_objects = << >>

\* the transform failed on the second detection, after the first was mapped
C8_Witness ==
    /\ exc = "transform"
    /\ stage = "Failed"
    /\ Len(celestial_positions) = 1
    /\ Len(retained) >= 2

PixelsOf(seq) == {seq[i].px : i \in DOMAIN seq}

\* C9: the batch is issued for min(number of detections, max_query_objects)
\* positions, one task each, they are the positions of distinct detections,
\* and no detection left out is brighter than a detection queried.
C9_BrightestAreQueried ==
    stage \in {"Resolving", "Assembling", "Done"} =>
        LET queried == PixelsOf(positions) IN
        /\ Len(positions) = Min(Len(detected_objects), max_query_objects)
        /\ Cardinality(queried) = Len(positions)
        /\ queried \subseteq PixelsOf(detected_objects)
        /\ bpc = "pool" => Len(fut) = Len(positions)
        /\ \A i, j \in DOMAIN detected_objects :
             (detected_objects[i].px \in queried /\ detected_objects[j].px \notin queried)
                => detected_objects[j].brightness <= detected_objects[i].brightness

\* more detections than the cap, of different brightness, and a batch issued
C9_Witness ==
    /\ stage = "Done"
    /\ max_query_objects >= 1
    /\ Len(detected_objects) > max_query_objects
    /\ Len(positions) = max_query_objects
    /\ detected_objects[Len(detected_objects)].brightness < detected_objects[1].brightness

\* the entries the truncated list and the returned slots call for
ExpectedEntries ==
    SelectSeq([i \in 1..Len(retained) |->
                  [pixel |-> retained[i].px, object |-> celestial_objects[i]]],
              LAMBDA e : e.object # NoObject)

\* C10: the output has one entry per retained detection whose slot is not
\* None, in order, pairing the detection's pixel with its slot's object, and
\* that object is the one found at the sky position computed from this pixel.
C10_EntriesPairSameDetection ==
    stage = "Done" =>
        /\ Len(celestial_objects) = Len(retained)
        /\ identified_objects = ExpectedEntries
        /\ \A k \in DOMAIN identified_objects :
             identified_objects[k].object = Obj(Sky(wcs.img, identified_objects[k].pixel))

\* a truncated run with an empty slot before a filled one
C10_Witness ==
    /\ stage = "Done"
    /\ Len(detected_objects) > Len(retained)
    /\ Len(retained) >= 2
    /\ celestial_objects[1] = NoObject
    /\ celestial_objects[2] # NoObject
    /\ Len(identified_objects) = 1

\* C11: query_simbad_batch always returns. Once the pool is created the call
\* comes back with its results, also when the catalog service never answers
\* the query of some position: that query is failed after the timeout and the
\* loop goes on to the end.
C11_BatchAlwaysReturns ==
    (bpc = "pool") ~> (bpc = "returned")

\* C12: a run never stays in Solving forever. If the external solver never
\* responds, the Solving stage fails when the configured timeout has elapsed
\* and the run ends failed; in every case a run that is in Solving leaves it.
C12_SolvingAlwaysEnds ==
    (stage = "Solving") ~> (stage # "Solving")

\* C13: a failed write of the plate solution to the cache is absorbed. The
\* step that receives a good answer of the solver hands on the solved header
\* and moves the run on exactly as the answer alone dictates, whatever became
\* of the cache file; a run with a good answer never fails in Solving for
\* any reason but a header without a centre.
C13_CacheWriteFailureAbsorbed ==
    /\ [][ (step = "posted" /\ ResponseOk(response')) =>
              /\ wcs' = Solution(image, response' = "ok")
              /\ wcsSource' = "solver"
              /\ stage' = StageAfterSolve(wcs')
              /\ exc' = ExcAfterSolve(wcs') ]_vars
    /\ [](ResponseOk(response) => exc # "solver")

\* a run completed with entries although the cache file holds no header
\* after the good answer: the write had failed
C13_Witness ==
    /\ stage = "Done"
    /\ response = "ok"
    /\ wcsSource = "solver"
    /\ cache \in {NoFile, Corrupt}
    /\ identified_objects # << >>

\* C14: the cache file is read only on entry to plate solving, before any
\* solver call, and changes only in the step that receives a good answer of
\* the solver, at most once in a run; a run that hits the cache and a run
\* whose solver call fails leave the file as it was.
C14_CacheReadThenWrittenOnce ==
    /\ [][ (cache' # cache) =>
              /\ stage = "Solving" /\ step = "posted"
              /\ ResponseOk(response')
              /\ wcsSource' = "solver" ]_vars
    /\ [][ (wcsSource' = "cache" /\ wcsSource # "cache") =>
              /\ stage = "Solving" /\ step = "begin"
              /\ solverCalls = 0 /\ solverCalls' = 0
              /\ wcs' = cache /\ cache' = cache ]_vars
    /\ [](solverCalls <= 1)
    /\ []((stage \notin {"Idle"} /\ wcsSource = "cache") => solverCalls = 0)

\* the second run failed in the solver after the first run had written the
\* file, and the file still holds the first run's header
C14_Witness ==
    /\ runs = 2
    /\ stage = "Failed"
    /\ exc = "solver"
    /\ solverCalls = 1
    /\ IsSolution(cache)

\* the stages a structured error can name
StageNames == {"solving", "detecting", "mapping", "resolving", "assembling"}

\* C15: every failed run surfaces to its caller one structured error that
\* names the stage that failed together with the cause.
C15_FailureNamesItsStage ==
    stage = "Failed" =>
        LET d == ErrorEvent(exc).data IN
        /\ {"stage", "cause"} \subseteq DOMAIN d
        /\ d.stage \in StageNames

\* C20: every failed catalog query produces a log record: no task whose
\* query failed has ended without logger.error having been called for it.
C20_EveryFailureIsLogged ==
    \A i \in Ended : fut[i].failed => i \in errlog

\* the rows whose coordinates the scan can read
UsableRows == {j \in DOMAIN result : has_radec /\ Usable(result[j])}

\* C16: when the scan of a result table has ended, the kept row has the
\* smallest separation among the rows with usable coordinates and comes
\* before every other row of that same separation; no row is kept exactly
\* when no row has usable coordinates.
C16_ClosestRowEarliestOnTie ==
    qpc \in {"none", "parse"} =>
        IF UsableRows = {}
          THEN closest_row = 0 /\ qpc = "none"
          ELSE /\ qpc = "parse"
               /\ closest_row \in UsableRows
               /\ \A j \in UsableRows :
                    /\ result[closest_row].sep <= result[j].sep
                    /\ result[j].sep = result[closest_row].sep => closest_row <= j

\* a table whose first row cannot be read and whose second and third rows
\* tie for the smallest separation: the second is kept
C16_Witness ==
    /\ qpc = "parse"
    /\ Len(result) >= 3
    /\ ~Usable(result[1])
    /\ closest_row = 2
    /\ Usable(result[3])
    /\ result[3].sep = result[2].sep

\* C17: the category is decided by the first rule that matches: a Messier
\* name gives Messier; otherwise an NGC or IC prefix gives NGC/IC; otherwise
\* an object-type code containing the stellar marker gives Star; otherwise
\* Deep Sky.
C17_CategoryByFirstRule ==
    parsed # NoParsed =>
        parsed.catalog =
            IF StartsWith(parsed.name, <<"M">>) /\ IsDigit(Strip(From(parsed.name, 1)))
              THEN "Messier"
            ELSE IF StartsWith(parsed.name, <<"N", "G", "C">>)
                      \/ StartsWith(parsed.name, <<"I", "C">>)
              THEN "NGC/IC"
            ELSE IF Contains(Otype(row), <<"*">>) THEN "Star"
            ELSE "Deep Sky"

\* C18: merging is idempotent: the merge pass run on its own output returns
\* it unchanged, that is, no two objects of the output satisfy the merge
\* condition.
C18_MergeIsIdempotent ==
    dpc \in {"sort", "returned"} =>
        /\ MergeNearbyObjects(merged_objects) = merged_objects
        /\ \A i, j \in DOMAIN merged_objects :
             i # j => ~Near(merged_objects[i], merged_objects[j])

\* C19: the list detect returns is in non-increasing order of brightness,
\* merged objects included, and holds the objects the merge pass returned.
C19_ReturnedByBrightness ==
    dpc = "returned" =>
        /\ Len(detect_return) = Len(merged_objects)
        /\ \A i \in DOMAIN merged_objects :
             \E k \in DOMAIN detect_return : detect_return[k] = merged_objects[i]
        /\ \A k \in 1..(Len(detect_return) - 1) :
             detect_return[k].brightness >= detect_return[k + 1].brightness

\* a merged object is returned behind a brighter single one that the merge
\* pass had placed after it
C19_Witness ==
    /\ dpc = "returned"
    /\ Len(merged_objects) = 2
    /\ Len(raw_objects) = 3
    /\ ~merged_objects[1].is_point_source
    /\ merged_objects[1].area_px > 8 * MinAreaPx
    /\ detect_return[1] = merged_objects[2]
    /\ detect_return[1].brightness > detect_return[2].brightness

\* C21: with caching disabled, _plate_solve calls the solve of the tool's
\* configured plate solver exactly once and returns what that call
\* returned.  In the code the request to the astrometry server is made by
\* _plate_solve itself (tool.py:109-116): no solver object is called, and the
\* server of the custom_remote method is the one asked whatever the method.
C21_DelegatesToConfiguredSolver ==
    (tpc = "ready" /\ ~use_cache /\ wcsSource = "solver") =>
        /\ plate_solver = SolverFor(plate_solving_method)
        /\ delegated = 1

\* C22: a constructed tool holds one solver, of the class its
\* plate_solving_method names, and no solver of the other class was
\* instantiated.
C22_SolverChosenByMethod ==
    tpc = "ready" =>
        /\ plate_solver = SolverFor(plate_solving_method)
        /\ instantiated = {SolverFor(plate_solving_method)}

\* C23, as stated: a run in which one conversion failed is not failed by it;
\* the other detections are still mapped and the run goes on to a result.
C23_TransformFailureSparesTheRun ==
    exc = "transform" => stage # "Failed"

\* C23, amended: the first conversion that fails ends the run at once.  The
\* detections behind it are never mapped, no catalog query is issued for
\* any detection (the ones already mapped included), and the run produces
\* no result.
C23_TransformFailureEndsTheRun ==
    exc = "transform" =>
        /\ stage = "Failed"
        /\ Len(celestial_positions) < Len(retained)
        /\ bpc = "idle"
        /\ results = << >>
        /\ errlog = {}
        /\ celestial_objects = << >>
        /\ identified_objects = << >>

\* the first of several detections fails to convert: none is mapped
C23_Witness ==
    /\ exc = "transform"
    /\ Len(retained) >= 2
    /\ celestial_positions = << >>

\* C24: with caching enabled and a cache file that exists but does not load,
\* _plate_solve does not fail: it posts to the solver, the run staying in
\* the Solving stage with no exception, and a good answer is then returned
\* and saved exactly as after a cache miss: the file ends up rewritten with
\* the new header, or as the failed save left it.
C24_UnreadableCacheFallsThrough ==
    [][ /\ (stage = "Solving" /\ step = "begin" /\ use_cache /\ cache = Corrupt)
            => /\ solverCalls' = solverCalls + 1
               /\ step' \in {"posted", "unanswered"}
               /\ stage' = "Solving"
               /\ exc' = exc
               /\ wcsSource' = None
               /\ cache' = cache
        /\ (stage = "Solving" /\ step = "posted" /\ use_cache /\ cache = Corrupt
              /\ ResponseOk(response'))
            => /\ wcs' = Solution(image, response' = "ok")
               /\ wcsSource' = "solver"
               /\ cache' \in {wcs', Corrupt}
               /\ stage' = StageAfterSolve(wcs')
               /\ exc' = ExcAfterSolve(wcs') ]_vars

\* a run with caching enabled has found the unreadable file and has its
\* request with the solver, no exception raised
C24_Witness ==
    /\ use_cache
    /\ cache = Corrupt
    /\ stage = "Solving"
    /\ step = "posted"
    /\ solverCalls = 1
    /\ exc = None

\* the detector of the current run has returned
AfterDetection ==
    \/ stage = "Detecting" /\ step = "truncate"
    \/ stage \in {"Mapping", "Resolving", "Assembling", "Done"}
    \/ stage = "Failed" /\ exc \in {"transform", "pool", "annotate", "save"}

\* C25: a run whose detector returned the empty list maps nothing, creates
\* no worker pool and issues no catalog query, raises nothing on account of
\* the empty list (the one way left for it to fail is the write of the
\* result file), and ends with an empty identified-object list.
C25_ZeroDetectionsIsNotAnError ==
    (AfterDetection /\ detected_objects = << >>) =>
        /\ retained = << >>
        /\ celestial_positions = << >>
        /\ positions = << >>
        /\ bpc \in {"idle", "called", "returned"}
        /\ fut = << >>
        /\ results = << >>
        /\ errlog = {}
        /\ celestial_objects = << >>
        /\ identified_objects = << >>
        /\ stage = "Failed" => exc = "save"

\* a run that found nothing has completed
C25_Witness ==
    /\ stage = "Done"
    /\ wcsSource # None
    /\ detected_objects = << >>
    /\ identified_objects = << >>
    /\ fut = << >>

\* C26: in an identified-object entry each of the optional string fields
\* (subtype, spectral type, morphological type) is present only when the
\* row carried a value for it, and is then a non-empty string, never null.
C26_AbsentFieldsAreOmitted ==
    obj_dict # NoEntry =>
        /\ obj_dict.subtype # Omitted =>
              (row.otype # Masked /\ obj_dict.subtype \notin {NoValue, << >>})
        /\ obj_dict.spectral_type # Omitted =>
              (row.sp_type # Masked /\ obj_dict.spectral_type \notin {NoValue, << >>})
        /\ obj_dict.morphological_type # Omitted =>
              (row.morph_type # Masked
               /\ obj_dict.morphological_type \notin {NoValue, << >>})

\* C28: the category of a row whose main identifier is a Messier, NGC or IC
\* designator is the same with and without a NAME alias among its
\* identifiers.
C28_CategoryIgnoresNameAlias ==
    LET without == ParseSimbadRow([row EXCEPT !.ids = MaskedIds]).catalog IN
    (parsed # NoParsed /\ without \in {"Messier", "NGC/IC"}) =>
        parsed.catalog = without

\* C27: while the pool of a batch is open, the position list never changes,
\* a slot of results changes only in the step that ends the task submitted
\* for that slot's index, that step touches no other slot and no other task,
\* and once a task has ended neither it nor its slot changes again.
C27_SlotsWrittenOnceByOwnTask ==
    [][ bpc = "pool" =>
          /\ positions' = positions
          /\ DOMAIN results' = DOMAIN results
          /\ DOMAIN fut' = DOMAIN fut
          /\ \A i \in DOMAIN results :
               /\ results'[i] # results[i] =>
                    /\ i \in Running
                    /\ fut'[i].kind = "returned"
                    /\ results'[i] = fut'[i].value
                    /\ \A j \in DOMAIN results \ {i} :
                         results'[j] = results[j] /\ fut'[j] = fut[j]
               /\ i \in Ended => (fut'[i] = fut[i] /\ results'[i] = results[i]) ]_vars

\* the second task has ended and filled its slot while the first is still
\* running, its slot empty
C27_Witness ==
    /\ bpc = "pool"
    /\ Len(positions) >= 3
    /\ fut[1].kind = "running"
    /\ results[1] = NoObject
    /\ fut[2].kind = "returned"
    /\ results[2] = Obj(positions[2])

\* C29: however the /solve requests interleave, the WCS content of a
\* successful answer was computed from the image uploaded in that request,
\* and the image solve-field loads for a request is the one that request
\* saved.
C29_RequestsAreIsolated ==
    \A r \in 1..MaxReq :
        /\ req[r].pc \in {"solving", "check", "answered"} => req[r].loaded = req[r].img
        /\ req[r].status = "success" => req[r].wcs = req[r].img

\* positions of event e in the stream
At(e) == {i \in DOMAIN events : events[i] = e}

\* what C30 says of the events behind the first one: a terminal event
\* (audio_complete, error) is the last event of the stream and the generator
\* has ended exactly when the last event is terminal; audio_complete has
\* analysis_complete and then narration_complete before it; a stream whose
\* Gemini step raised carries analysis_complete all the same.
StreamOrder ==
    /\ \A i \in DOMAIN events :
         events[i] \in {"audio_complete", "error"} => i = Len(events)
    /\ spc = "closed" <=>
         (events # << >> /\ events[Len(events)] \in {"audio_complete", "error"})
    /\ \A i \in At("audio_complete") :
         \E j \in At("analysis_complete"), k \in At("narration_complete") : j < k /\ k < i
    /\ main_structure = "raised" => At("analysis_complete") # {}

=============================================================================
